---------------------------- MODULE Spec2Model ----------------------------
(***************************************************************************)
(* The assertion engine of alsatian (src/core/expect.ts): the Expect       *)
(* entry point, the Matcher object with its mutable polarity, and the      *)
(* fifteen comparison methods.  JavaScript values are tagged records, the  *)
(* objects they refer to live in a fixed heap, and every matcher method    *)
(* is an operator that yields the way the call leaves: "returned", or the  *)
(* name of the error it throws.                                            *)
(***************************************************************************)
EXTENDS Integers, Sequences, FiniteSets

(***************************************************************************)
(* Bounds of the model.                                                    *)
(***************************************************************************)
\* Matcher objects one run allocates.
MaxMatchers == 2
\* Accesses of .not on one Matcher.
MaxNot == 2
\* Calls recorded in one spy's call log.
MaxCalls == 2
\* Arguments of one recorded call or of one toHaveBeenCalledWith.
MaxArgs == 2

(***************************************************************************)
(* JavaScript values.                                                      *)
(***************************************************************************)
Undefined == [t |-> "undefined"]
Null == [t |-> "null"]
NaN == [t |-> "nan"]
Num(k) == [t |-> "number", n |-> k]
Str(x) == [t |-> "string", s |-> x]
Ref(a) == [t |-> "object", ref |-> a]
Fn(i) == [t |-> "function", fn |-> i]
RegExp(src) == [t |-> "regexp", source |-> src]
\* An Error object: its constructor's name and its message.
Err(type, message) == [t |-> "error", type |-> type, message |-> message]
\* A function spy and a property spy, each with its log of recorded calls.
Spy(calls) == [t |-> "spy", calls |-> calls]
PropertySpy(setCalls) == [t |-> "propertySpy", setCalls |-> setCalls]

\* An object of the heap: a plain object or an array, its own enumerable
\* keys in Object.keys order, and the value under each key.
Obj(ks, vs) == [isArray |-> FALSE, keys |-> ks, vals |-> vs]
Arr(vs) == [isArray |-> TRUE,
            keys |-> [i \in 1..Len(vs) |-> <<"0", "1", "2">>[i]],
            vals |-> vs]

\* The objects the test code built; an address is an index.  None is
\* mutated by a matcher, and none is cyclic (a value refers only to lower
\* addresses).
Heap ==
  << Obj(<<>>, <<>>),                                \* 1  {}
     Obj(<<"a">>, <<Num(1)>>),                       \* 2  {a:1}
     Obj(<<"a">>, <<Num(1)>>),                       \* 3  {a:1}, another object
     Obj(<<"a", "b">>, <<Num(1), Num(2)>>),          \* 4  {a:1,b:2}
     Obj(<<"c">>, <<Num(2)>>),                       \* 5  {c:2}
     Obj(<<"c">>, <<Num(2)>>),                       \* 6  {c:2}, another object
     Obj(<<"a", "b">>, <<Num(1), Ref(5)>>),          \* 7  {a:1,b:{c:2}}
     Obj(<<"a", "b">>, <<Num(1), Ref(6)>>),          \* 8  {a:1,b:{c:2}}, another
     Obj(<<"a">>, <<Undefined>>),                    \* 9  {a:undefined}
     Obj(<<"b">>, <<Num(1)>>),                       \* 10 {b:1}
     Arr(<<>>),                                      \* 11 []
     Arr(<<Num(1)>>),                                \* 12 [1]
     Obj(<<"0">>, <<Num(1)>>),                       \* 13 {0:1}
     Obj(<<"a">>, <<Null>>),                         \* 14 {a:null}
     Obj(<<"a">>, <<Ref(1)>>),                       \* 15 {a:{}}
     Obj(<<"a">>, <<NaN>>),                          \* 16 {a:NaN}
     Arr(<<Num(1), Num(2)>>),                        \* 17 [1,2]
     Arr(<<Ref(12)>>) >>                             \* 18 [[1]]

Primitives ==
  {Undefined, Null, NaN, Num(0), Num(1), Str(""), Str("1"), Str("a")}

Objects == {Ref(a) : a \in 1..Len(Heap)}

\* The values toBe and toEqual are applied to.
PlainValues == Primitives \cup Objects

\* typeof
TypeOf(v) ==
  CASE v.t = "null" -> "object"
    [] v.t = "nan" -> "number"
    [] v.t \in {"regexp", "error"} -> "object"
    [] v.t = "spy" -> "function"
    [] v.t = "propertySpy" -> "object"
    [] OTHER -> v.t

\* ===
StrictEquals(x, y) == x.t # "nan" /\ x = y

DecimalDigits == <<"0", "1", "2", "3", "4", "5", "6", "7", "8", "9">>

\* Number::toString, for the numbers of the model
NumberToString(k) == DecimalDigits[k + 1]

\* StringToNumber, for the strings the model can build: "" is 0, a decimal
\* digit is its number, anything else (letters, a comma-joined list,
\* "[object Object]") is NaN.
ToNumber(x) ==
  IF x = "" THEN Num(0)
  ELSE IF \E k \in 0..9 : NumberToString(k) = x
       THEN Num(CHOOSE k \in 0..9 : NumberToString(k) = x)
       ELSE NaN

RECURSIVE JSToString(_)
RECURSIVE ArrayJoin(_, _)

\* Array.prototype.join(","): null and undefined elements are empty.
ArrayJoin(vs, i) ==
  IF i > Len(vs) THEN ""
  ELSE LET e == IF vs[i].t \in {"undefined", "null"} THEN "" ELSE JSToString(vs[i])
       IN  IF i = Len(vs) THEN e ELSE e \o "," \o ArrayJoin(vs, i + 1)

JSToString(v) ==
  CASE v.t = "undefined" -> "undefined"
    [] v.t = "null" -> "null"
    [] v.t = "nan" -> "NaN"
    [] v.t = "number" -> NumberToString(v.n)
    [] v.t = "string" -> v.s
    [] v.t = "object" ->
         IF Heap[v.ref].isArray THEN ArrayJoin(Heap[v.ref].vals, 1)
         ELSE "[object Object]"

\* ToPrimitive of an object: no valueOf of the model's objects is
\* primitive, so it is toString.
ToPrimitive(v) == Str(JSToString(v))

\* == on two primitives
LooseEqualsPrimitive(x, y) ==
  CASE x.t = y.t -> StrictEquals(x, y)
    [] x.t \in {"undefined", "null"} /\ y.t \in {"undefined", "null"} -> TRUE
    [] x.t = "number" /\ y.t = "string" -> StrictEquals(x, ToNumber(y.s))
    [] x.t = "string" /\ y.t = "number" -> StrictEquals(ToNumber(x.s), y)
    [] OTHER -> FALSE

\* == (IsLooselyEqual)
LooseEquals(x, y) ==
  CASE x.t = "object" /\ y.t = "object" -> x = y
    [] x.t = "object" /\ y.t \in {"number", "nan", "string"} ->
         LooseEqualsPrimitive(ToPrimitive(x), y)
    [] y.t = "object" /\ x.t \in {"number", "nan", "string"} ->
         LooseEqualsPrimitive(x, ToPrimitive(y))
    [] x.t = "object" \/ y.t = "object" -> FALSE
    [] OTHER -> LooseEqualsPrimitive(x, y)


(***************************************************************************)
(* Object.keys, property reads and Array.isArray on any value.            *)
(***************************************************************************)
\* Array.isArray
IsArray(v) == v.t = "object" /\ Heap[v.ref].isArray

\* Whether Object.keys(v) throws the TypeError of ToObject.
KeysThrow(v) == v.t \in {"undefined", "null"}

\* Object.keys(v) where it does not throw (ES2015: a primitive is converted
\* to an object): the own enumerable keys of an object, the indices of a
\* string, nothing for a number or a function.
ObjectKeys(v) ==
  CASE v.t = "object" -> Heap[v.ref].keys
    [] v.t = "string" -> [i \in 1..Len(v.s) |-> NumberToString(i - 1)]
    [] OTHER -> <<>>

\* v[key] where v is neither null nor undefined.  The strings of the
\* model have at most one character, so the character at "0" is the
\* string itself.
Get(v, key) ==
  CASE v.t = "object" ->
         LET o == Heap[v.ref]
         IN  IF \E i \in 1..Len(o.keys) : o.keys[i] = key
             THEN o.vals[CHOOSE i \in 1..Len(o.keys) : o.keys[i] = key]
             ELSE Undefined
    [] v.t = "string" -> IF key = "0" /\ Len(v.s) = 1 THEN v ELSE Undefined
    [] OTHER -> Undefined

(***************************************************************************)
(* Matcher._checkObjectsAreDeepEqual: "true", "false", or "TypeError"      *)
(* when Object.keys is handed null or undefined.                           *)
(***************************************************************************)
RECURSIVE checkObjectsAreDeepEqual(_, _)
RECURSIVE checkProperties(_, _, _, _)

\* The for loop over objectAKeys, from index i on.
checkProperties(objectA, objectB, objectAKeys, i) ==
  IF i > Len(objectAKeys) THEN "true"
  ELSE LET a == Get(objectA, objectAKeys[i])
           b == Get(objectB, objectAKeys[i])
       IN  IF ~StrictEquals(a, b)
           THEN IF TypeOf(a) # "object" THEN "false"
                ELSE LET r == checkObjectsAreDeepEqual(a, b)
                     IN  IF r = "true"
                         THEN checkProperties(objectA, objectB, objectAKeys, i + 1)
                         ELSE r
           ELSE checkProperties(objectA, objectB, objectAKeys, i + 1)

checkObjectsAreDeepEqual(objectA, objectB) ==
  IF IsArray(objectA) # IsArray(objectB) THEN "false"
  ELSE IF KeysThrow(objectA) \/ KeysThrow(objectB) THEN "TypeError"
  ELSE IF Len(ObjectKeys(objectA)) # Len(ObjectKeys(objectB)) THEN "false"
  ELSE checkProperties(objectA, objectB, ObjectKeys(objectA), 1)

(***************************************************************************)
(* The comparison methods.  `this` is a Matcher, [actualValue,             *)
(* shouldMatch]; the result is how the call leaves.                        *)
(***************************************************************************)
Matcher(actualValue) == [actualValue |-> actualValue, shouldMatch |-> TRUE]

\* The Matcher `this` with its polarity flipped.
Negated(this) == [this EXCEPT !.shouldMatch = ~@]

toBeOutcome(this, expectedValue) ==
  IF (~StrictEquals(expectedValue, this.actualValue)) = this.shouldMatch
  THEN "ExactMatchError"
  ELSE "returned"

\* toEqual without the loose comparison in front: only the typeof test and
\* the deep comparison decide.
toEqualOutcomeDeepOnly(this, expectedValue) ==
  IF TypeOf(expectedValue) # "object" THEN "EqualMatchError"
  ELSE LET r == checkObjectsAreDeepEqual(expectedValue, this.actualValue)
       IN  IF r = "TypeError" THEN "TypeError"
           ELSE IF (r = "true") # this.shouldMatch THEN "EqualMatchError"
           ELSE "returned"

toEqualOutcome(this, expectedValue) ==
  IF (~LooseEquals(expectedValue, this.actualValue)) = this.shouldMatch
  THEN IF TypeOf(expectedValue) # "object" THEN "EqualMatchError"
       ELSE LET r == checkObjectsAreDeepEqual(expectedValue, this.actualValue)
            IN  IF r = "TypeError" THEN "TypeError"
                ELSE IF (r = "true") # this.shouldMatch THEN "EqualMatchError"
                ELSE "returned"
  ELSE "returned"


(***************************************************************************)
(* Callables.  The outcome of this._actualValue(): whether it threw, and   *)
(* the value thrown.                                                       *)
(***************************************************************************)
NoThrow == [threw |-> FALSE, error |-> Undefined]
Throws(e) == [threw |-> TRUE, error |-> e]

\* What the functions handed to Expect do when called with no argument.
FunctionBodies ==
  << NoThrow,                                 \* 1  () => {}
     Throws(Err("Error", "bad")),             \* 2  () => { throw new Error("bad") }
     Throws(Err("RangeError", "bad")),        \* 3  () => { throw new RangeError("bad") }
     Throws(Err("RangeError", "other")),      \* 4  () => { throw new RangeError("other") }
     Throws(Undefined) >>                     \* 5  () => { throw undefined }

Functions == {Fn(i) : i \in 1..Len(FunctionBodies)}

NotAFunction == Err("TypeError", "this._actualValue is not a function")

\* this._actualValue(): calling what is not callable throws a TypeError.
Call(actualValue) ==
  IF actualValue.t = "function" THEN FunctionBodies[actualValue.fn]
  ELSE Throws(NotAFunction)

ErrorTypes == {"Error", "RangeError", "TypeError"}
ErrorMessages == {"bad", "other", NotAFunction.message}

\* error instanceof errorType, for errorType one of the ErrorTypes: every
\* error type derives from Error; a thrown non-object is an instance of
\* nothing.
InstanceOf(error, errorType) ==
  error.t = "error" /\ (error.type = errorType \/ errorType = "Error")

\* error.message, read only of a value that passed instanceof
Message(error) == error.message

(***************************************************************************)
(* Regular expressions: RegExp.prototype.test on the strings of the model. *)
(***************************************************************************)
RegExps == {RegExp("a"), RegExp("^$"), RegExp("[1a]")}

RegExpTest(regex, x) ==
  CASE regex.source = "a" -> x = "a"
    [] regex.source = "^$" -> x = ""
    [] regex.source = "[1a]" -> x \in {"1", "a"}

\* ToBoolean
ToBoolean(v) ==
  CASE v.t \in {"undefined", "null", "nan"} -> FALSE
    [] v.t = "number" -> v.n # 0
    [] v.t = "string" -> v.s # ""
    [] OTHER -> TRUE

\* actualValue.indexOf(expectedContent) !== -1, where actualValue has an
\* indexOf: a string (of at most one character, so its substrings are ""
\* and itself) or an array (strict equality against each element).
HasIndexOf(v) == v.t = "string" \/ IsArray(v)

IndexOfFinds(actualValue, expectedContent) ==
  IF actualValue.t = "string"
  THEN JSToString(expectedContent) \in {"", actualValue.s}
  ELSE \E i \in 1..Len(Heap[actualValue.ref].vals) :
         StrictEquals(Heap[actualValue.ref].vals[i], expectedContent)

\* ToNumber(ToPrimitive(v)): the source text of a function is no numeral.
ToNumeric(v) ==
  CASE v.t = "undefined" -> NaN
    [] v.t = "null" -> Num(0)
    [] v.t \in {"number", "nan"} -> v
    [] v.t = "function" -> NaN
    [] OTHER -> ToNumber(JSToString(v))

\* x < y where one side is a number (the limit is typed number), so that
\* the comparison is numeric: false when either side converts to NaN.
LessThan(x, y) ==
  LET a == ToNumeric(x)
      b == ToNumeric(y)
  IN  a.t = "number" /\ b.t = "number" /\ a.n < b.n

(***************************************************************************)
(* The remaining comparison methods.                                       *)
(***************************************************************************)
\* toMatch whose check of the actual value depends on the polarity: under
\* .not a value that is not a string passes.
toMatchOutcomePolarChecked(this, regex) ==
  IF regex.t \in {"null", "undefined"} THEN "TypeError"
  ELSE IF TypeOf(this.actualValue) # "string"
       THEN IF this.shouldMatch THEN "TypeError" ELSE "returned"
  ELSE IF (~RegExpTest(regex, this.actualValue.s)) = this.shouldMatch
       THEN "RegexMatchError"
       ELSE "returned"

toMatchOutcome(this, regex) ==
  IF regex.t \in {"null", "undefined"} THEN "TypeError"
  ELSE IF TypeOf(this.actualValue) # "string" THEN "TypeError"
  ELSE IF (~RegExpTest(regex, this.actualValue.s)) = this.shouldMatch
       THEN "RegexMatchError"
       ELSE "returned"

toBeDefinedOutcome(this) ==
  IF (this.actualValue.t = "undefined") = this.shouldMatch
  THEN "ExactMatchError"
  ELSE "returned"

toBeNullOutcome(this) ==
  IF (this.actualValue.t # "null") = this.shouldMatch
  THEN "ExactMatchError"
  ELSE "returned"

toBeTruthyOutcome(this) ==
  IF \/ ToBoolean(this.actualValue) /\ ~this.shouldMatch
     \/ ~ToBoolean(this.actualValue) /\ this.shouldMatch
  THEN "TruthyMatchError"
  ELSE "returned"

toContainOutcome(this, expectedContent) ==
  IF ~HasIndexOf(this.actualValue) THEN "TypeError"
  ELSE IF (~IndexOfFinds(this.actualValue, expectedContent)) = this.shouldMatch
       THEN "ContentsMatchError"
       ELSE "returned"

toBeLessThanOutcome(this, upperLimit) ==
  IF LessThan(this.actualValue, upperLimit) # this.shouldMatch
  THEN "LessThanMatchError"
  ELSE "returned"

toBeGreaterThanOutcome(this, lowerLimit) ==
  IF LessThan(lowerLimit, this.actualValue) # this.shouldMatch
  THEN "GreaterThanMatchError"
  ELSE "returned"

\* toThrow and toThrowError also yield how many times they called
\* this._actualValue.
toThrowOutcome(this) ==
  LET call == Call(this.actualValue)
      errorThrown == IF call.threw THEN call.error ELSE Undefined
  IN  [invoked |-> 1,
       outcome |->
         IF call.threw /\ ~this.shouldMatch THEN "ErrorMatchError"
         ELSE IF this.shouldMatch /\ errorThrown = Undefined THEN "ErrorMatchError"
         ELSE "returned"]

toThrowErrorOutcome(this, errorType, errorMessage) ==
  LET call == Call(this.actualValue)
      threwRightError ==
        /\ call.threw
        /\ InstanceOf(call.error, errorType)
        /\ Message(call.error) = errorMessage
  IN  [invoked |-> 1,
       outcome |->
         IF (~threwRightError) = this.shouldMatch THEN "ErrorMatchError"
         ELSE "returned"]

toHaveBeenCalledOutcome(this) ==
  IF this.actualValue.t # "spy" THEN "TypeError"
  ELSE IF (Len(this.actualValue.calls) = 0) = this.shouldMatch
       THEN "FunctionCallMatchError"
       ELSE "returned"

\* args[index], undefined past the end
ArgAt(args, index) == IF index <= Len(args) THEN args[index] ELSE Undefined

\* The filter's predicate without its second conjunct.
callMatchesAnyLength(call, args) ==
  Cardinality({index \in 1..Len(call.args) :
                 StrictEquals(call.args[index], ArgAt(args, index))})
    = Len(args)

\* The predicate of the outer filter: the call's arguments that equal the
\* expected argument at their position are as many as the expected
\* arguments, and the call has as many arguments as expected.
callMatches(call, args) ==
  /\ Cardinality({index \in 1..Len(call.args) :
                    StrictEquals(call.args[index], ArgAt(args, index))})
       = Len(args)
  /\ Len(call.args) = Len(args)

toHaveBeenCalledWithOutcome(this, args) ==
  IF this.actualValue.t # "spy" THEN "TypeError"
  ELSE LET calls == this.actualValue.calls
           matching == {c \in 1..Len(calls) : callMatches(calls[c], args)}
       IN  IF (Cardinality(matching) = 0) = this.shouldMatch
           THEN "FunctionCallMatchError"
           ELSE "returned"

toHaveBeenSetOutcome(this) ==
  IF this.actualValue.t # "propertySpy" THEN "TypeError"
  ELSE IF (Len(this.actualValue.setCalls) = 0) = this.shouldMatch
       THEN "PropertySetMatchError"
       ELSE "returned"

toHaveBeenSetToOutcome(this, value) ==
  IF this.actualValue.t # "propertySpy" THEN "TypeError"
  ELSE LET setCalls == this.actualValue.setCalls
           matching == {c \in 1..Len(setCalls) :
                          StrictEquals(ArgAt(setCalls[c].args, 1), value)}
       IN  IF (Cardinality(matching) = 0) = this.shouldMatch
           THEN "PropertySetMatchError"
           ELSE "returned"

(***************************************************************************)
(* The state: the Matcher objects allocated so far, and the test code      *)
(* that drives them one assertion statement at a time.                     *)
(***************************************************************************)
VARIABLES
  matchers,   \* the Matcher objects, by identity: [actualValue, shouldMatch]
  notCount,   \* per Matcher, how many times .not was read on it (history)
  cur,        \* the Matcher the running statement holds, 0 between statements
  stmtNots,   \* how many times the running statement has read .not
  last        \* the last comparison call: its receiver, arguments and outcome

vars == <<matchers, notCount, cur, stmtNots, last>>

NoLast ==
  [op |-> "none", m |-> 0, this |-> Matcher(Undefined), args |-> <<>>,
   nots |-> 0, invoked |-> 0, outcome |-> "none"]

\* Sequences over S of length at most n
SeqsUpTo(S, n) == UNION {[1..k -> S] : k \in 0..n}

\* The arguments spies record and toHaveBeenCalledWith is given.
SpyArgs == {Undefined, Num(1)}
ArgLists == SeqsUpTo(SpyArgs, MaxArgs)
Spies == {Spy(calls) : calls \in SeqsUpTo({[args |-> a] : a \in ArgLists}, MaxCalls)}
PropertySpies ==
  {PropertySpy(setCalls) :
     setCalls \in SeqsUpTo({[args |-> <<v>>] : v \in SpyArgs}, MaxCalls)}

\* The values the chained statements of Spec wrap.
ExpectValues == {Num(1), Str("a"), Undefined}

(***************************************************************************)
(* Expect(actualValue): a new Matcher, which the statement goes on with.   *)
(***************************************************************************)
Expect(actualValue) ==
  /\ Len(matchers) < MaxMatchers
  /\ matchers' = Append(matchers, Matcher(actualValue))
  /\ notCount' = Append(notCount, 0)
  /\ cur' = Len(matchers) + 1
  /\ stmtNots' = 0
  /\ UNCHANGED last

\* The test code kept the Matcher m that Expect returned and starts another
\* statement on it.
Resume(m) ==
  /\ cur = 0
  /\ cur' = m
  /\ stmtNots' = 0
  /\ UNCHANGED <<matchers, notCount, last>>

\* A .not that answers with a new, negated Matcher around the same value
\* and leaves the one it was read on alone.
notReturnsNewMatcher ==
  /\ cur # 0
  /\ notCount[cur] < MaxNot
  /\ Len(matchers) < MaxMatchers
  /\ matchers' = Append(matchers, Negated(matchers[cur]))
  /\ notCount' = Append(notCount, notCount[cur] + 1)
  /\ cur' = Len(matchers) + 1
  /\ stmtNots' = stmtNots + 1
  /\ UNCHANGED last

(***************************************************************************)
(* get not(): flips this._shouldMatch and returns this.                    *)
(***************************************************************************)
not ==
  /\ cur # 0
  /\ notCount[cur] < MaxNot
  /\ matchers' = [matchers EXCEPT ![cur] = Negated(@)]
  /\ notCount' = [notCount EXCEPT ![cur] = @ + 1]
  /\ cur' = cur
  /\ stmtNots' = stmtNots + 1
  /\ UNCHANGED last

(***************************************************************************)
(* A comparison call on the statement's Matcher: it returns or throws,     *)
(* and the statement is over.  No comparison method writes a field.        *)
(***************************************************************************)
Compare(op, args, invoked, outcome) ==
  /\ last' = [op |-> op, m |-> cur, this |-> matchers[cur], args |-> args,
              nots |-> stmtNots, invoked |-> invoked, outcome |-> outcome]
  /\ cur' = 0
  /\ stmtNots' = 0
  /\ UNCHANGED <<matchers, notCount>>

toBe(expectedValue) ==
  /\ cur # 0
  /\ Compare("toBe", <<expectedValue>>, 0, toBeOutcome(matchers[cur], expectedValue))

toEqual(expectedValue) ==
  /\ cur # 0
  /\ Compare("toEqual", <<expectedValue>>, 0,
             toEqualOutcome(matchers[cur], expectedValue))

toMatch(regex) ==
  /\ cur # 0
  /\ Compare("toMatch", <<regex>>, 0, toMatchOutcome(matchers[cur], regex))

toBeDefined ==
  /\ cur # 0
  /\ Compare("toBeDefined", <<>>, 0, toBeDefinedOutcome(matchers[cur]))

toBeNull ==
  /\ cur # 0
  /\ Compare("toBeNull", <<>>, 0, toBeNullOutcome(matchers[cur]))

toBeTruthy ==
  /\ cur # 0
  /\ Compare("toBeTruthy", <<>>, 0, toBeTruthyOutcome(matchers[cur]))

toContain(expectedContent) ==
  /\ cur # 0
  /\ Compare("toContain", <<expectedContent>>, 0,
             toContainOutcome(matchers[cur], expectedContent))

toBeLessThan(upperLimit) ==
  /\ cur # 0
  /\ Compare("toBeLessThan", <<upperLimit>>, 0,
             toBeLessThanOutcome(matchers[cur], upperLimit))

toBeGreaterThan(lowerLimit) ==
  /\ cur # 0
  /\ Compare("toBeGreaterThan", <<lowerLimit>>, 0,
             toBeGreaterThanOutcome(matchers[cur], lowerLimit))

toThrow ==
  /\ cur # 0
  /\ LET r == toThrowOutcome(matchers[cur])
     IN  Compare("toThrow", <<>>, r.invoked, r.outcome)

toThrowError(errorType, errorMessage) ==
  /\ cur # 0
  /\ LET r == toThrowErrorOutcome(matchers[cur], errorType, errorMessage)
     IN  Compare("toThrowError", <<Str(errorType), Str(errorMessage)>>,
                 r.invoked, r.outcome)

toHaveBeenCalled ==
  /\ cur # 0
  /\ Compare("toHaveBeenCalled", <<>>, 0, toHaveBeenCalledOutcome(matchers[cur]))

toHaveBeenCalledWith(args) ==
  /\ cur # 0
  /\ Compare("toHaveBeenCalledWith", args, 0,
             toHaveBeenCalledWithOutcome(matchers[cur], args))

toHaveBeenSet ==
  /\ cur # 0
  /\ Compare("toHaveBeenSet", <<>>, 0, toHaveBeenSetOutcome(matchers[cur]))

toHaveBeenSetTo(value) ==
  /\ cur # 0
  /\ Compare("toHaveBeenSetTo", <<value>>, 0,
             toHaveBeenSetToOutcome(matchers[cur], value))

(***************************************************************************)
(* Spec: statements chained from Expect, on fresh and on kept Matchers,    *)
(* ended by the comparisons that take no argument or a value.              *)
(***************************************************************************)
Init ==
  /\ matchers = <<>>
  /\ notCount = <<>>
  /\ cur = 0
  /\ stmtNots = 0
  /\ last = NoLast

Next ==
  \/ \E actualValue \in ExpectValues : Expect(actualValue)
  \/ \E m \in 1..Len(matchers) : Resume(m)
  \/ not
  \/ \E expectedValue \in ExpectValues : toBe(expectedValue)
  \/ toBeDefined
  \/ toBeNull
  \/ toBeTruthy

Spec == Init /\ [][Next]_vars

(***************************************************************************)
(* SpecAssert: one assertion statement, Expect(v)[.not]*.op(args), for v   *)
(* any plain value or function and op any comparison on values and         *)
(* callables.                                                              *)
(***************************************************************************)
InitAssert ==
  /\ \E actualValue \in PlainValues \cup Functions :
       matchers = <<Matcher(actualValue)>>
  /\ notCount = <<0>>
  /\ cur = 1
  /\ stmtNots = 0
  /\ last = NoLast

NextAssert ==
  \/ not
  \/ \E expectedValue \in PlainValues : toBe(expectedValue)
  \/ \E expectedValue \in PlainValues : toEqual(expectedValue)
  \/ \E regex \in RegExps \cup {Null, Undefined} : toMatch(regex)
  \/ toBeDefined
  \/ toBeNull
  \/ toBeTruthy
  \/ \E expectedContent \in Primitives : toContain(expectedContent)
  \/ \E upperLimit \in {NaN, Num(0), Num(1)} : toBeLessThan(upperLimit)
  \/ \E lowerLimit \in {NaN, Num(0), Num(1)} : toBeGreaterThan(lowerLimit)
  \/ toThrow
  \/ \E errorType \in ErrorTypes, errorMessage \in ErrorMessages :
       toThrowError(errorType, errorMessage)

SpecAssert == InitAssert /\ [][NextAssert]_vars

(***************************************************************************)
(* SpecSpy: one assertion statement on a function spy, a property spy or a *)
(* value that is neither, with the four comparisons on recorded calls.     *)
(***************************************************************************)
InitSpy ==
  /\ \E actualValue \in Spies \cup PropertySpies \cup {Undefined, Num(1)} :
       matchers = <<Matcher(actualValue)>>
  /\ notCount = <<0>>
  /\ cur = 1
  /\ stmtNots = 0
  /\ last = NoLast

NextSpy ==
  \/ not
  \/ toHaveBeenCalled
  \/ \E args \in ArgLists : toHaveBeenCalledWith(args)
  \/ toHaveBeenSet
  \/ \E value \in SpyArgs : toHaveBeenSetTo(value)

SpecSpy == InitSpy /\ [][NextSpy]_vars

(***************************************************************************)
(* What the properties are stated with.                                    *)
(***************************************************************************)
\* The comparison `op` applied to the Matcher `this` with `args`.
Outcome(op, this, args) ==
  CASE op = "toBe" -> toBeOutcome(this, args[1])
    [] op = "toEqual" -> toEqualOutcome(this, args[1])
    [] op = "toMatch" -> toMatchOutcome(this, args[1])
    [] op = "toBeDefined" -> toBeDefinedOutcome(this)
    [] op = "toBeNull" -> toBeNullOutcome(this)
    [] op = "toBeTruthy" -> toBeTruthyOutcome(this)
    [] op = "toContain" -> toContainOutcome(this, args[1])
    [] op = "toBeLessThan" -> toBeLessThanOutcome(this, args[1])
    [] op = "toBeGreaterThan" -> toBeGreaterThanOutcome(this, args[1])
    [] op = "toThrow" -> toThrowOutcome(this).outcome
    [] op = "toThrowError" -> toThrowErrorOutcome(this, args[1].s, args[2].s).outcome
    [] op = "toHaveBeenCalled" -> toHaveBeenCalledOutcome(this)
    [] op = "toHaveBeenCalledWith" -> toHaveBeenCalledWithOutcome(this, args)
    [] op = "toHaveBeenSet" -> toHaveBeenSetOutcome(this)
    [] op = "toHaveBeenSetTo" -> toHaveBeenSetToOutcome(this, args[1])

\* The match error each operation throws.
MatchErrorOf(op) ==
  CASE op \in {"toBe", "toBeDefined", "toBeNull"} -> "ExactMatchError"
    [] op = "toEqual" -> "EqualMatchError"
    [] op = "toMatch" -> "RegexMatchError"
    [] op = "toBeTruthy" -> "TruthyMatchError"
    [] op = "toContain" -> "ContentsMatchError"
    [] op = "toBeLessThan" -> "LessThanMatchError"
    [] op = "toBeGreaterThan" -> "GreaterThanMatchError"
    [] op \in {"toThrow", "toThrowError"} -> "ErrorMatchError"
    [] op \in {"toHaveBeenCalled", "toHaveBeenCalledWith"} -> "FunctionCallMatchError"
    [] op \in {"toHaveBeenSet", "toHaveBeenSetTo"} -> "PropertySetMatchError"

\* The last comparison was a proper use: no usage error under either
\* polarity, and a callable under toThrow and toThrowError.
ValidUse ==
  /\ last.op # "none"
  /\ last.outcome # "TypeError"
  /\ Outcome(last.op, Negated(last.this), last.args) # "TypeError"
  /\ last.op \in {"toThrow", "toThrowError"} => last.this.actualValue.t = "function"

\* C1: for every operation and all valid values, the call returns normally
\* under one polarity exactly when it throws the operation's match error
\* under the other.
C1_NegationIsComplement ==
  ValidUse =>
    ((last.outcome = "returned")
       <=> (Outcome(last.op, Negated(last.this), last.args) = MatchErrorOf(last.op)))

\* Deep equality as the specification words it: array-ness agrees, the
\* numbers of own enumerable keys agree, and under every key the two values
\* are strictly equal or both non-primitive and deep-equal in turn.
NonPrimitive(v) == v.t = "object"
OwnKeys(v) == IF KeysThrow(v) THEN <<>> ELSE ObjectKeys(v)
KeySet(v) == {OwnKeys(v)[i] : i \in 1..Len(OwnKeys(v))}
Read(v, key) == IF KeysThrow(v) THEN Undefined ELSE Get(v, key)

RECURSIVE DeepEqual(_, _)
DeepEqual(a, b) ==
  /\ IsArray(a) = IsArray(b)
  /\ Len(OwnKeys(a)) = Len(OwnKeys(b))
  /\ \A key \in KeySet(a) \cup KeySet(b) :
       \/ StrictEquals(Read(a, key), Read(b, key))
       \/ /\ NonPrimitive(Read(a, key))
          /\ NonPrimitive(Read(b, key))
          /\ DeepEqual(Read(a, key), Read(b, key))

\* C2: with default polarity toEqual returns normally exactly when the two
\* values are loosely equal, or expected is non-primitive and they are
\* deep-equal; in every other case it throws EqualMatchError.
C2_ToEqualIsLooseOrDeepEqual ==
  (last.op = "toEqual" /\ last.this.shouldMatch) =>
    LET actual == last.this.actualValue
        expected == last.args[1]
        equal == \/ LooseEquals(actual, expected)
                 \/ NonPrimitive(expected) /\ DeepEqual(actual, expected)
    IN  last.outcome = IF equal THEN "returned" ELSE "EqualMatchError"

\* C3 as stated: with default polarity Expect(v).toEqual(v) returns normally
\* for every non-cyclic value v.
C3_ToEqualReflexive ==
  (last.op = "toEqual" /\ last.this.shouldMatch
     /\ last.args[1] = last.this.actualValue)
    => last.outcome = "returned"

\* C3 as amended: with default polarity Expect(v).toEqual(v) returns
\* normally for every non-cyclic value v other than NaN.
C3_ToEqualReflexiveExceptNaN ==
  (last.op = "toEqual" /\ last.this.shouldMatch
     /\ last.args[1] = last.this.actualValue
     /\ last.this.actualValue # NaN)
    => last.outcome = "returned"

\* Expect(v).toEqual(v) was called on the nested object {a:1,b:{c:2}}.
C3_Witness ==
  /\ last.op = "toEqual"
  /\ last.this = Matcher(Ref(7))
  /\ last.args = <<Ref(7)>>
  /\ last.outcome = "returned"

\* The step of C4: a Matcher starts with shouldMatch true; every read of .not flips
\* shouldMatch of the Matcher it is read on, returns that same Matcher and
\* allocates none, and leaves every wrapped value as it was; so shouldMatch
\* is true exactly when .not was read an even number of times.
C4_NotStep ==
  /\ \A m \in 1..Len(matchers') :
       matchers'[m].shouldMatch = (notCount'[m] % 2 = 0)
  /\ (stmtNots' = stmtNots + 1) =>
       /\ cur' = cur
       /\ Len(matchers') = Len(matchers)
       /\ matchers'[cur].shouldMatch = ~matchers[cur].shouldMatch
       /\ \A m \in 1..Len(matchers) :
            matchers'[m].actualValue = matchers[m].actualValue

\* C4, over every step: the parity of the .not count decides shouldMatch,
\* and a read of .not returns the Matcher it was read on.
C4_NotTogglesSameMatcher == [][C4_NotStep]_vars

\* .not was read twice on the Matcher the statement holds.
C4_Witness ==
  /\ cur # 0
  /\ notCount[cur] = 2
  /\ stmtNots = 2
  /\ matchers[cur].shouldMatch

\* C5: a comparison not preceded by .not within its own statement is
\* evaluated with shouldMatch true, whatever earlier statements did.
C5_PolarityNeverLeaks ==
  (last.op # "none" /\ last.nots = 0) => last.this.shouldMatch

\* C6: toThrow and toThrowError call the wrapped callable once; nothing but
\* ErrorMatchError leaves them, and it does exactly when whether the
\* callable threw (threw the right error) contradicts the polarity.
C6_ThrowMatchersCaptureErrors ==
  (last.op \in {"toThrow", "toThrowError"} /\ last.this.actualValue.t = "function") =>
    LET body == FunctionBodies[last.this.actualValue.fn]
        matched ==
          IF last.op = "toThrow" THEN body.threw
          ELSE /\ body.threw
               /\ InstanceOf(body.error, last.args[1].s)
               /\ body.error.message = last.args[2].s
    IN  /\ last.invoked = 1
        /\ last.outcome =
             IF matched # last.this.shouldMatch THEN "ErrorMatchError" ELSE "returned"

\* C7: toThrow on a value that is not callable throws a type error under
\* either polarity.
C7_ToThrowOnNonCallableIsTypeError ==
  (last.op = "toThrow" /\ last.this.actualValue.t # "function")
    => last.outcome = "TypeError"

\* C8: toMatch throws a type error whenever the regex is null or undefined
\* or the actual value is not a string, under either polarity; otherwise
\* it throws RegexMatchError exactly when the regex test differs from
\* shouldMatch, and returns if not.
C8_ToMatchTypeErrors ==
  (last.op = "toMatch") =>
    LET actual == last.this.actualValue
        regex == last.args[1]
    IN  IF regex \in {Null, Undefined} \/ actual.t # "string"
        THEN last.outcome = "TypeError"
        ELSE last.outcome =
               IF RegExpTest(regex, actual.s) # last.this.shouldMatch
               THEN "RegexMatchError"
               ELSE "returned"

\* A negated toMatch with a regex on a number threw the type error.
C8_Witness ==
  /\ last.op = "toMatch"
  /\ last.nots = 1
  /\ ~last.this.shouldMatch
  /\ last.this.actualValue = Num(1)
  /\ last.args[1] \in RegExps
  /\ last.outcome = "TypeError"

\* C9: toHaveBeenCalledWith(a1..an) finds a match exactly when some recorded
\* call has n arguments, the i-th strictly equal to ai; it returns when
\* that agrees with shouldMatch and throws FunctionCallMatchError when not.
C9_CalledWithExactArgs ==
  (last.op = "toHaveBeenCalledWith" /\ last.this.actualValue.t = "spy") =>
    LET calls == last.this.actualValue.calls
        args == last.args
        found == \E c \in 1..Len(calls) :
                   /\ Len(calls[c].args) = Len(args)
                   /\ \A i \in 1..Len(args) : StrictEquals(calls[c].args[i], args[i])
    IN  last.outcome =
          IF found = last.this.shouldMatch THEN "returned" ELSE "FunctionCallMatchError"

\* The only recorded call has one more argument than expected, and the
\* assertion failed.
C9_Witness ==
  /\ last.op = "toHaveBeenCalledWith"
  /\ last.this = Matcher(Spy(<<[args |-> <<Num(1), Undefined>>]>>))
  /\ last.args = <<Num(1)>>
  /\ last.outcome = "FunctionCallMatchError"

\* C10: with default polarity Expect(a).toEqual(b) returns normally exactly
\* when Expect(b).toEqual(a) does.
C10_ToEqualSymmetric ==
  (last.op = "toEqual" /\ last.this.shouldMatch) =>
    ((last.outcome = "returned")
       <=> (toEqualOutcome(Matcher(last.args[1]), last.this.actualValue) = "returned"))

=============================================================================
